---------------------------- MODULE Spec2Model ----------------------------
(***************************************************************************)
(* Model of src/international_standard_atmosphere.py: ISALayer (one        *)
(* atmospheric layer with a linear temperature profile) and ISAModel (an   *)
(* ordered stack of layers answering altitude / pressure queries).         *)
(*                                                                         *)
(* Numbers.  The program computes on Python floats.  Here heights,         *)
(* altitudes, temperatures and pressures are integers (one unit of         *)
(* altitude is far above the 1e-10 slack of line 20, so the slack          *)
(* comparison of line 21 is the plain comparison).  The temperature        *)
(* formulas are exact on these integers.  The barometric curve of lines    *)
(* 25-27 and its inverse of lines 30-32 use math.pow with a real exponent, *)
(* which has no integer counterpart: the curve base_press * pow(frac, exp) *)
(* is represented by BaroCurve and its inverse by BaroInverse, a strictly  *)
(* decreasing map of the local altitude that starts at base_press and is   *)
(* inverted exactly.  Everything around the pow call is kept: the          *)
(* divisions that raise ZeroDivisionError, the math domain error of pow,   *)
(* the absence of any range check in the two pressure methods.             *)
(*                                                                         *)
(* Exceptions.  Every method returns an outcome [kind, idx, val]: kind is  *)
(* "ok" or the name of the Python exception that leaves the method.        *)
(* A layer object is identified by its index in ISAModel.layers (ISALayer  *)
(* defines no __eq__, so `l != layer` on line 102 compares identities).    *)
(*                                                                         *)
(* State.  layers is ISAModel.layers; result is what the caller got from   *)
(* its last call (operation, arguments, outcome); omitted is a history     *)
(* variable, one entry per layer, recording which of base_temp and         *)
(* base_press the add_layer call that made the layer left to be derived.   *)
(***************************************************************************)
EXTENDS Integers, Sequences, FiniteSets, TLC

VARIABLES layers, result, omitted

vars == <<layers, result, omitted>>

---------------------------------------------------------------------------
(* Bounds of the model *)

MaxLayers == 3
MaxHeight == 1
MaxLapse == 1

(* Program constants, scaled to integers *)
GravConst == 98066      \* ISALayer.grav_const = 9.8066   (x 10^4)
GasConst == 28704       \* gas_const default   = 0.28704  (x 10^5)

(* Python's None, the default of base_temp and base_press in add_layer *)
None == -999

(* Input values.  add_layer takes any height, 0 and negative ones too; the  *)
(* temperatures stay positive within the bounds, as on an absolute scale.   *)
SeaLevelTemp == 20
SeaLevelPress == 50

Heights == -1..MaxHeight
LapseRates == {-MaxLapse}
BaseTemps == {None, 0, SeaLevelTemp}
BasePresss == {None, 0, SeaLevelPress}

---------------------------------------------------------------------------
(* Outcomes of a call *)

Ok(v) == [kind |-> "ok", idx |-> 0, val |-> v]
OkAt(i, v) == [kind |-> "ok", idx |-> i, val |-> v]
Raise(e) == [kind |-> e, idx |-> 0, val |-> 0]
IsOk(o) == o.kind = "ok"

Sign(x) == IF x > 0 THEN 1 ELSE IF x < 0 THEN -1 ELSE 0

---------------------------------------------------------------------------
(* ISALayer *)

ISALayer(height, lapse_rate, base_temp, base_press) ==
    [height     |-> height,
     tbot       |-> base_temp,
     base_press |-> base_press,
     gas_const  |-> GasConst,
     ttop       |-> base_temp + lapse_rate * height]

\* the assert of line 21 comes before the division of line 22
ISALayer_get_temperature_by_altitude(l, altitude) ==
    IF ~(0 <= altitude /\ altitude <= l.height) THEN Raise("AssertionError")
    ELSE IF l.height = 0 THEN Raise("ZeroDivisionError")
    ELSE Ok(l.tbot + ((l.ttop - l.tbot) * altitude) \div l.height)

\* base_press * math.pow(frac, exp) for frac > 0
BaroCurve(l, altitude) == l.base_press - altitude

\* co * (math.pow(base_press / pressure, exp) - 1) for base_press / pressure > 0
BaroInverse(l, pressure) == l.base_press - pressure

\* line 25 divides by gas_const * ttop, line 26 by tbot**2 * height;
\* line 27: math.pow raises ValueError on a negative base with a fractional
\* exponent and on a zero base with a negative exponent.  frac is
\* (tbot**2 * height + altitude * ttop) / (tbot**2 * height) and exp has
\* the sign of -tbot * height * ttop.
ISALayer_get_pressure_by_altitude(l, altitude) ==
    IF l.gas_const * l.ttop = 0 THEN Raise("ZeroDivisionError")
    ELSE IF l.tbot * l.tbot * l.height = 0 THEN Raise("ZeroDivisionError")
    ELSE LET fracSign == Sign(l.height)
                         * Sign(l.tbot * l.tbot * l.height + altitude * l.ttop)
             expSign  == -Sign(l.tbot * l.height * l.ttop)
         IN  IF fracSign < 0 THEN Raise("ValueError")
             ELSE IF fracSign = 0
                  THEN (IF expSign < 0 THEN Raise("ValueError") ELSE Ok(0))
             ELSE Ok(BaroCurve(l, altitude))

\* line 30 divides by ttop, line 31 by grav_const * tbot * height, line 32
\* by pressure; math.pow as above, on base_press / pressure
ISALayer_get_altitude_by_pressure(l, pressure) ==
    IF l.ttop = 0 THEN Raise("ZeroDivisionError")
    ELSE IF GravConst * l.tbot * l.height = 0 THEN Raise("ZeroDivisionError")
    ELSE IF pressure = 0 THEN Raise("ZeroDivisionError")
    ELSE LET ratioSign == Sign(l.base_press) * Sign(pressure)
             expSign   == Sign(l.ttop * l.tbot * l.height)
         IN  IF ratioSign < 0 THEN Raise("ValueError")
             ELSE IF ratioSign = 0
                  THEN (IF expSign < 0 THEN Raise("ValueError")
                        ELSE Ok(-((l.tbot * l.tbot * l.height) \div l.ttop)))
             ELSE Ok(BaroInverse(l, pressure))

ISALayer_get_temperature_by_pressure(l, pressure) ==
    LET altitude == ISALayer_get_altitude_by_pressure(l, pressure)
    IN  IF ~IsOk(altitude) THEN altitude
        ELSE ISALayer_get_temperature_by_altitude(l, altitude.val)

---------------------------------------------------------------------------
(* ISAModel *)

RECURSIVE SumHeights(_, _)
SumHeights(ls, n) == IF n = 0 THEN 0 ELSE SumHeights(ls, n - 1) + ls[n].height

\* the height property, lines 59-61
ISAModel_height(ls) == SumHeights(ls, Len(ls))

\* `x or y` of lines 64-65 takes x unless x is falsy (None or 0)
Truthy(x) == x # None /\ x # 0

\* add_layer taking base_press from the bottom of the last layer
add_layer_from_bottom(ls, height, lapse_rate, base_temp, base_press) ==
    LET last == ls[Len(ls)]
        t == IF Truthy(base_temp) THEN Ok(base_temp)
             ELSE IF Len(ls) = 0 THEN Raise("IndexError")
             ELSE ISALayer_get_temperature_by_altitude(last, last.height)
        p == IF Truthy(base_press) THEN Ok(base_press)
             ELSE IF Len(ls) = 0 THEN Raise("IndexError")
             ELSE ISALayer_get_pressure_by_altitude(last, 0)
    IN  IF ~IsOk(t) THEN [out |-> t, layers |-> ls]
        ELSE IF ~IsOk(p) THEN [out |-> p, layers |-> ls]
        ELSE [out    |-> Ok(0),
              layers |-> Append(ls, ISALayer(height, lapse_rate, t.val, p.val))]

\* add_layer falling back on sea-level values when there is no last layer
add_layer_with_defaults(ls, height, lapse_rate, base_temp, base_press) ==
    LET last == ls[Len(ls)]
        t == IF Truthy(base_temp) THEN Ok(base_temp)
             ELSE IF Len(ls) = 0 THEN Ok(SeaLevelTemp)
             ELSE ISALayer_get_temperature_by_altitude(last, last.height)
        p == IF Truthy(base_press) THEN Ok(base_press)
             ELSE IF Len(ls) = 0 THEN Ok(SeaLevelPress)
             ELSE ISALayer_get_pressure_by_altitude(last, last.height)
    IN  IF ~IsOk(t) THEN [out |-> t, layers |-> ls]
        ELSE IF ~IsOk(p) THEN [out |-> p, layers |-> ls]
        ELSE [out    |-> Ok(0),
              layers |-> Append(ls, ISALayer(height, lapse_rate, t.val, p.val))]

\* add_layer inserting the new layer at the bottom of the stack
add_layer_at_bottom(ls, height, lapse_rate, base_temp, base_press) ==
    LET last == ls[Len(ls)]
        t == IF Truthy(base_temp) THEN Ok(base_temp)
             ELSE IF Len(ls) = 0 THEN Raise("IndexError")
             ELSE ISALayer_get_temperature_by_altitude(last, last.height)
        p == IF Truthy(base_press) THEN Ok(base_press)
             ELSE IF Len(ls) = 0 THEN Raise("IndexError")
             ELSE ISALayer_get_pressure_by_altitude(last, last.height)
    IN  IF ~IsOk(t) THEN [out |-> t, layers |-> ls]
        ELSE IF ~IsOk(p) THEN [out |-> p, layers |-> ls]
        ELSE [out    |-> Ok(0),
              layers |-> <<ISALayer(height, lapse_rate, t.val, p.val)>> \o ls]

\* lines 63-67; an exception on line 64 or 65 leaves self.layers untouched
add_layer(ls, height, lapse_rate, base_temp, base_press) ==
    LET last == ls[Len(ls)]
        t == IF Truthy(base_temp) THEN Ok(base_temp)
             ELSE IF Len(ls) = 0 THEN Raise("IndexError")
             ELSE ISALayer_get_temperature_by_altitude(last, last.height)
        p == IF Truthy(base_press) THEN Ok(base_press)
             ELSE IF Len(ls) = 0 THEN Raise("IndexError")
             ELSE ISALayer_get_pressure_by_altitude(last, last.height)
    IN  IF ~IsOk(t) THEN [out |-> t, layers |-> ls]
        ELSE IF ~IsOk(p) THEN [out |-> p, layers |-> ls]
        ELSE [out    |-> Ok(0),
              layers |-> Append(ls, ISALayer(height, lapse_rate, t.val, p.val))]

\* the altitude scan with `altitude < alt` for `altitude <= alt`
RECURSIVE ScanByAltitude_strict(_, _, _, _)
ScanByAltitude_strict(ls, altitude, i, alt) ==
    IF i > Len(ls) THEN Raise("ValueError")
    ELSE LET alt2 == alt + ls[i].height
         IN  IF altitude < alt2
             THEN OkAt(i, altitude - alt2 + ls[i].height)
             ELSE ScanByAltitude_strict(ls, altitude, i + 1, alt2)

\* lines 69-77: the loop from layer i on, alt being the heights summed so far
RECURSIVE ScanByAltitude(_, _, _, _)
ScanByAltitude(ls, altitude, i, alt) ==
    IF i > Len(ls) THEN Raise("ValueError")
    ELSE LET alt2 == alt + ls[i].height
         IN  IF altitude <= alt2
             THEN OkAt(i, altitude - alt2 + ls[i].height)
             ELSE ScanByAltitude(ls, altitude, i + 1, alt2)

get_layer_by_altitude(ls, altitude) == ScanByAltitude(ls, altitude, 1, 0)

\* the pressure scan with `pressure > top` for `pressure >= top`
RECURSIVE ScanByPressure_strict(_, _, _)
ScanByPressure_strict(ls, pressure, i) ==
    IF i > Len(ls) THEN Raise("ValueError")
    ELSE LET top == ISALayer_get_pressure_by_altitude(ls[i], ls[i].height)
         IN  IF ~IsOk(top) THEN top
             ELSE IF pressure > top.val THEN OkAt(i, 0)
             ELSE ScanByPressure_strict(ls, pressure, i + 1)

\* lines 79-84: the loop from layer i on
RECURSIVE ScanByPressure(_, _, _)
ScanByPressure(ls, pressure, i) ==
    IF i > Len(ls) THEN Raise("ValueError")
    ELSE LET top == ISALayer_get_pressure_by_altitude(ls[i], ls[i].height)
         IN  IF ~IsOk(top) THEN top
             ELSE IF pressure >= top.val THEN OkAt(i, 0)
             ELSE ScanByPressure(ls, pressure, i + 1)

get_layer_by_pressure(ls, pressure) == ScanByPressure(ls, pressure, 1)

\* lines 86-88
ISAModel_get_temperature_by_altitude(ls, altitude) ==
    LET loc == get_layer_by_altitude(ls, altitude)
    IN  IF ~IsOk(loc) THEN loc
        ELSE ISALayer_get_temperature_by_altitude(ls[loc.idx], loc.val)

\* lines 90-92
ISAModel_get_temperature_by_pressure(ls, pressure) ==
    LET loc == get_layer_by_pressure(ls, pressure)
    IN  IF ~IsOk(loc) THEN loc
        ELSE ISALayer_get_temperature_by_pressure(ls[loc.idx], pressure)

\* lines 94-96
ISAModel_get_pressure_by_altitude(ls, altitude) ==
    LET loc == get_layer_by_altitude(ls, altitude)
    IN  IF ~IsOk(loc) THEN loc
        ELSE ISALayer_get_pressure_by_altitude(ls[loc.idx], loc.val)

\* the loop of lines 101-105 counting the matched layer too
HeightsBelow_inclusive(ls, k) == SumHeights(ls, k)

\* lines 101-105: the heights of the layers met before `layer`
HeightsBelow(ls, k) == SumHeights(ls, k - 1)

\* lines 98-106
ISAModel_get_altitude_by_pressure(ls, pressure) ==
    LET loc == get_layer_by_pressure(ls, pressure)
    IN  IF ~IsOk(loc) THEN loc
        ELSE LET alt == ISALayer_get_altitude_by_pressure(ls[loc.idx], pressure)
             IN  IF ~IsOk(alt) THEN alt
                 ELSE Ok(alt.val + HeightsBelow(ls, loc.idx))

---------------------------------------------------------------------------
(* The state machine: a caller builds the model and queries it *)

Call(op, args, out) == [op |-> op, args |-> args, out |-> out]

QueryAltitudes == -1..(MaxHeight + 1)
QueryPressures == (SeaLevelPress - MaxHeight - 1)..(SeaLevelPress + 1)

Init ==
    /\ layers = <<>>
    /\ omitted = <<>>
    /\ result = Call("init", <<>>, Ok(0))

AddLayer ==
    /\ Len(layers) < MaxLayers
    /\ \E height \in Heights, lapse_rate \in LapseRates,
          base_temp \in BaseTemps, base_press \in BasePresss :
          LET r == add_layer(layers, height, lapse_rate, base_temp, base_press)
          IN  /\ layers' = r.layers
              /\ result' = Call("add_layer",
                                <<height, lapse_rate, base_temp, base_press>>,
                                r.out)
              /\ omitted' = IF IsOk(r.out)
                            THEN Append(omitted, [temp  |-> ~Truthy(base_temp),
                                                  press |-> ~Truthy(base_press)])
                            ELSE omitted

Height ==
    /\ result' = Call("height", <<>>, Ok(ISAModel_height(layers)))
    /\ UNCHANGED <<layers, omitted>>

GetTemperatureByAltitude ==
    /\ \E altitude \in QueryAltitudes :
          result' = Call("get_temperature_by_altitude", <<altitude>>,
                         ISAModel_get_temperature_by_altitude(layers, altitude))
    /\ UNCHANGED <<layers, omitted>>

GetPressureByAltitude ==
    /\ \E altitude \in QueryAltitudes :
          result' = Call("get_pressure_by_altitude", <<altitude>>,
                         ISAModel_get_pressure_by_altitude(layers, altitude))
    /\ UNCHANGED <<layers, omitted>>

GetTemperatureByPressure ==
    /\ \E pressure \in QueryPressures :
          result' = Call("get_temperature_by_pressure", <<pressure>>,
                         ISAModel_get_temperature_by_pressure(layers, pressure))
    /\ UNCHANGED <<layers, omitted>>

GetAltitudeByPressure ==
    /\ \E pressure \in QueryPressures :
          result' = Call("get_altitude_by_pressure", <<pressure>>,
                         ISAModel_get_altitude_by_pressure(layers, pressure))
    /\ UNCHANGED <<layers, omitted>>

Next ==
    \/ AddLayer
    \/ Height
    \/ GetTemperatureByAltitude
    \/ GetPressureByAltitude
    \/ GetTemperatureByPressure
    \/ GetAltitudeByPressure

Spec == Init /\ [][Next]_vars

---------------------------------------------------------------------------
(* Vocabulary of the properties *)

AllAltitudes == -2..(MaxLayers * MaxHeight + 2)
AllPressures ==
    (SeaLevelPress - MaxLayers * MaxHeight - 2)..(SeaLevelPress + MaxLayers + 2)

AllPositive(ls) == \A i \in 1..Len(ls) : ls[i].height > 0

TopPressure(l) == ISALayer_get_pressure_by_altitude(l, l.height)

TopsDefined(ls) == \A i \in 1..Len(ls) : IsOk(TopPressure(ls[i]))

TopsDecreasing(ls) ==
    \A i, j \in 1..Len(ls) : i < j => TopPressure(ls[i]).val > TopPressure(ls[j]).val

Continuous(ls) ==
    \A i \in 1..(Len(ls) - 1) :
        /\ ls[i + 1].tbot = ls[i].ttop
        /\ IsOk(TopPressure(ls[i]))
        /\ ls[i + 1].base_press = TopPressure(ls[i]).val

AltitudeQueries == {"get_temperature_by_altitude", "get_pressure_by_altitude"}
PressureQueries == {"get_temperature_by_pressure", "get_altitude_by_pressure"}
Queries == AltitudeQueries \cup PressureQueries \cup {"height"}

Omitted(x) == x = None

---------------------------------------------------------------------------
(* C1: on a model of positive heights, every query out of range fails:     *)
(* an altitude query below 0 or above the total height, a pressure query   *)
(* above layer 0's base pressure or below the top layer's top pressure,    *)
(* never returns a value.                                                  *)
C1_OutOfRangeQueriesFail ==
    (Len(layers) >= 1 /\ AllPositive(layers)) =>
        /\ (/\ result.op \in AltitudeQueries
            /\ \/ result.args[1] < 0
               \/ result.args[1] > ISAModel_height(layers))
           => ~IsOk(result.out)
        /\ (/\ result.op \in PressureQueries
            /\ IsOk(TopPressure(layers[Len(layers)]))
            /\ \/ result.args[1] > layers[1].base_press
               \/ result.args[1] < TopPressure(layers[Len(layers)]).val)
           => ~IsOk(result.out)

(* C2: model round trip.  On a model of positive heights whose layers      *)
(* after the first take their base values from the predecessor, for every  *)
(* global altitude a in [0, height], get_altitude_by_pressure of           *)
(* get_pressure_by_altitude(a) is a; the layer found by pressure is the    *)
(* layer found by altitude, also when a is on a layer boundary.            *)
C2_ModelRoundTrip ==
    (Len(layers) >= 1 /\ AllPositive(layers) /\ Continuous(layers)) =>
        \A a \in 0..ISAModel_height(layers) :
            LET p == ISAModel_get_pressure_by_altitude(layers, a)
            IN  /\ IsOk(p)
                /\ ISAModel_get_altitude_by_pressure(layers, p.val) = Ok(a)
                /\ get_layer_by_pressure(layers, p.val).idx
                       = get_layer_by_altitude(layers, a).idx

C2_Witness ==
    /\ Len(layers) >= 2 /\ AllPositive(layers) /\ Continuous(layers)
    /\ result.op = "get_altitude_by_pressure"
    /\ result.args[1] = TopPressure(layers[1]).val
    /\ result.out = Ok(layers[1].height)

(* C3 as stated: after any sequence of add_layer calls, with base values   *)
(* explicit or omitted, adjacent layers are continuous in temperature and  *)
(* pressure (stated on the models of positive heights).                    *)
C3_ContinuityAlways == AllPositive(layers) => Continuous(layers)

(* C3 amended: for every pair of adjacent layers i and i+1, if layer i+1   *)
(* was added with base_temp omitted (None or 0) its tbot is layer i's      *)
(* ttop, and if it was added with base_press omitted (None or 0) its       *)
(* base_press is layer i's pressure at its own height.                     *)
C3_ContinuityWhereOmitted ==
    \A i \in 1..(Len(layers) - 1) :
        /\ omitted[i + 1].temp => layers[i + 1].tbot = layers[i].ttop
        /\ omitted[i + 1].press =>
              /\ IsOk(TopPressure(layers[i]))
              /\ layers[i + 1].base_press = TopPressure(layers[i]).val

C3_Witness ==
    /\ Len(layers) >= 3
    /\ result.op = "add_layer" /\ IsOk(result.out)
    /\ omitted[2].temp /\ ~omitted[2].press
    /\ omitted[3].temp /\ omitted[3].press
    /\ layers[2].ttop # layers[2].tbot
    /\ layers[3].tbot = layers[2].ttop
    /\ layers[3].base_press = TopPressure(layers[2]).val
    /\ layers[2].base_press # TopPressure(layers[1]).val

(* C4: on a non-empty model of positive heights and for 0 <= altitude <=   *)
(* height, _get_layer_by_altitude returns the lowest layer k whose         *)
(* cumulative top is >= altitude with the local altitude altitude - (sum   *)
(* of the heights below k), which lies in [0, height of k]; an interior    *)
(* boundary goes to the lower layer at local altitude = its height; above  *)
(* the total height the call raises ValueError.                            *)
C4_LocateByAltitude ==
    (Len(layers) >= 1 /\ AllPositive(layers)) =>
        /\ \A a \in 0..(ISAModel_height(layers) + 2) :
              LET loc == get_layer_by_altitude(layers, a)
                  k == CHOOSE k \in 1..Len(layers) :
                          /\ SumHeights(layers, k) >= a
                          /\ \A j \in 1..(k - 1) : SumHeights(layers, j) < a
              IN  IF a <= ISAModel_height(layers)
                  THEN /\ loc = OkAt(k, a - SumHeights(layers, k - 1))
                       /\ 0 <= loc.val /\ loc.val <= layers[k].height
                  ELSE loc.kind = "ValueError"
        /\ \A i \in 1..(Len(layers) - 1) :
              get_layer_by_altitude(layers, SumHeights(layers, i))
                  = OkAt(i, layers[i].height)

C4_Witness ==
    /\ Len(layers) >= 2 /\ AllPositive(layers)
    /\ result.op = "get_temperature_by_altitude"
    /\ result.args[1] = layers[1].height
    /\ result.out = Ok(layers[1].ttop)
    /\ layers[2].tbot # layers[1].ttop

C6_AddLayerOmitted ==
    [][ (/\ Len(layers) >= 1
         /\ result'.op = "add_layer"
         /\ Omitted(result'.args[3]) /\ Omitted(result'.args[4]))
        => LET last == layers[Len(layers)]
               new  == layers'[Len(layers')]
           IN  /\ Len(layers') = Len(layers) + 1
               /\ SubSeq(layers', 1, Len(layers)) = layers
               /\ new.tbot = last.ttop
               /\ IsOk(TopPressure(last))
               /\ new.base_press = TopPressure(last).val
               /\ new.height = result'.args[1]
               /\ new.ttop = new.tbot + result'.args[2] * result'.args[1]
               /\ ISAModel_height(layers')
                      = ISAModel_height(layers) + result'.args[1] ]_vars

(* C7: add_layer on an empty model with base_temp or base_press (or both)  *)
(* omitted fails, and the layer sequence is still empty afterwards.        *)
C7_FirstLayerNeedsBoth ==
    [][ (/\ Len(layers) = 0
         /\ result'.op = "add_layer"
         /\ (Omitted(result'.args[3]) \/ Omitted(result'.args[4])))
        => (~IsOk(result'.out) /\ layers' = <<>>) ]_vars

C7_Witness ==
    /\ layers = <<>>
    /\ result.op = "add_layer"
    /\ result.out.kind = "IndexError"
    /\ Truthy(result.args[3]) /\ Omitted(result.args[4])

(* C8: add_layer changes the layer sequence at most by appending one       *)
(* element, every layer already there keeping its place and attributes;    *)
(* every query, succeeding or failing, leaves the sequence unchanged.      *)
C8_AppendOnlyFrame ==
    [][ /\ result'.op = "add_layer"
           => \/ layers' = layers
              \/ /\ Len(layers') = Len(layers) + 1
                 /\ SubSeq(layers', 1, Len(layers)) = layers
        /\ result'.op \in Queries => layers' = layers ]_vars

C8_Witness ==
    /\ Len(layers) >= 2
    /\ layers[1] # layers[2]
    /\ result.op = "add_layer" /\ IsOk(result.out)

(* C9: a layer of non-positive height is rejected when it is constructed,  *)
(* so every layer of every reachable model has height > 0.                 *)
C9_HeightsPositive == AllPositive(layers)

(* C10: add_layer treats a base value of 0 as omitted: on a non-empty      *)
(* model base_temp = 0 (resp. base_press = 0) appends a layer whose tbot   *)
(* (resp. base_press) is the previous last layer's top value, each of the  *)
(* two resolved on its own, an explicit value being kept; on an empty      *)
(* model a 0 fails like an omitted value.                                  *)
C10_ZeroIsOmitted ==
    [][ result'.op = "add_layer" =>
        LET last == layers[Len(layers)]
            new  == layers'[Len(layers')]
            base_temp  == result'.args[3]
            base_press == result'.args[4]
        IN  /\ (Len(layers) >= 1 /\ base_temp = 0)
               => /\ Len(layers') = Len(layers) + 1
                  /\ new.tbot = last.ttop
                  /\ Truthy(base_press) => new.base_press = base_press
            /\ (Len(layers) >= 1 /\ base_press = 0)
               => /\ Len(layers') = Len(layers) + 1
                  /\ IsOk(TopPressure(last))
                  /\ new.base_press = TopPressure(last).val
                  /\ Truthy(base_temp) => new.tbot = base_temp
            /\ (Len(layers) = 0 /\ (base_temp = 0 \/ base_press = 0))
               => (~IsOk(result'.out) /\ layers' = <<>>) ]_vars

===========================================================================
